---- MODULE Spec2Model ----
(***************************************************************************)
(* A model of emergent's AgentModel (src/src/emergent/main.py): the        *)
(* parameter store, the owned graph, the two injected behaviour functions, *)
(* the max-timestep bound and the convergence loop.                        *)
(***************************************************************************)
EXTENDS Integers, Sequences, FiniteSets, TLC

VARIABLES
    parameters,             \* self.__parameters : dict
    graph,                  \* self.__graph
    initial_data_function,  \* self.initial_data_function
    timestep_function,      \* self.timestep_function
    MAX_TIMESTEPS,          \* self.__MAX_TIMESTEPS
    run,                    \* the frame of a run_to_convergence call in progress
    last,                   \* the last call made on the model and how it ended
    initialized             \* whether an initialize_graph call has completed

vars == <<parameters, graph, initial_data_function, timestep_function,
          MAX_TIMESTEPS, run, last, initialized>>

-----------------------------------------------------------------------------
(* Bounds of the model *)

MaxNodes == 3       \* largest num_nodes a caller stores
MaxVal == 3         \* largest value of a node's "id" field
MaxPatchKeys == 2   \* largest number of keys in one update_parameters patch
MaxTime == 3        \* largest number of loop iterations followed in one run
MaxBound == 2       \* largest value passed to change_max_timesteps

-----------------------------------------------------------------------------
(* Values *)

None == "None"

RequiredKeys == {"num_nodes", "graph_type", "convergence_data_key", "convergence_std_dev"}

CustomKeys == {"a", "b"}

Keys == RequiredKeys \cup CustomKeys

DefaultStdDev == 100

DefaultMaxTimesteps == 100000

DefaultParameters ==
    [k \in RequiredKeys |->
        CASE k = "num_nodes" -> 3
          [] k = "graph_type" -> "complete"
          [] k = "convergence_data_key" -> None
          [] k = "convergence_std_dev" -> DefaultStdDev]

\* the values a caller stores under each key (the store itself is untyped)
ValuesOf(k) ==
    CASE k = "num_nodes" -> 1..MaxNodes
      [] k = "graph_type" -> {"complete", "cycle", "star"}
      [] k = "convergence_data_key" -> {None, "id"}
      [] k = "convergence_std_dev" -> {0, 1, DefaultStdDev}
      [] OTHER -> {7}

\* dict[key] = value
DictSet(d, key, value) ==
    [k \in DOMAIN d \cup {key} |-> IF k = key THEN value ELSE d[k]]

\* an update that overwrites the keys already present and adds none
DictUpdate_existing(d, patch) ==
    [k \in DOMAIN d |-> IF k \in DOMAIN patch THEN patch[k] ELSE d[k]]

\* dict.update(patch)
DictUpdate(d, patch) ==
    [k \in DOMAIN d \cup DOMAIN patch |-> IF k \in DOMAIN patch THEN patch[k] ELSE d[k]]

\* dict.pop(key), key present
DictPop(d, key) == [k \in DOMAIN d \ {key} |-> d[k]]

EmptyDict == [k \in {} |-> 0]

\* the dicts over the key set D, each key holding one of its values
RECURSIVE DictsOver(_)
DictsOver(D) ==
    IF D = {} THEN {EmptyDict}
    ELSE LET k == CHOOSE x \in D : TRUE IN
         {DictSet(d, k, v) : d \in DictsOver(D \ {k}), v \in ValuesOf(k)}

\* the dicts a caller passes to update_parameters
PatchArgs ==
    UNION {DictsOver(D) : D \in {E \in SUBSET Keys : Cardinality(E) <= MaxPatchKeys}}

\* the lists a caller passes to delete_parameters (<<>> also stands for None)
KeyLists == {<<>>} \cup {<<k>> : k \in Keys} \cup {<<k1, k2>> : k1 \in Keys, k2 \in Keys}

Call(op, arg, status, ret) == [op |-> op, arg |-> arg, status |-> status, ret |-> ret]

\* no run_to_convergence call in progress
NoRun == [pc |-> "idle", time |-> 0, data_key |-> None, std_dev |-> 0,
          calls |-> 0, first |-> -1, lo |-> 0, hi |-> 0, bound0 |-> 0]

-----------------------------------------------------------------------------
(* Graphs: what self.__graph can reference *)

\* a node's data dict
EmptyRecord == [f \in {} |-> 0]

IdRecord(v) == [f \in {"id"} |-> v]

\* an nx.Graph: nodes 0..n-1, undirected edges, one data dict per node
GraphObject(nodes, edges, data) ==
    [kind |-> "Graph", nodes |-> nodes, edges |-> edges, data |-> data]

\* things that are not an nx.Graph: None, the integer 0, a non-empty string
NoGraph == [kind |-> "None", nodes |-> {}, edges |-> {}, data |-> <<>>]

ZeroObject == [kind |-> "int 0", nodes |-> {}, edges |-> {}, data |-> <<>>]

StrObject == [kind |-> "str", nodes |-> {}, edges |-> {}, data |-> <<>>]

\* isinstance(g, nx.Graph)
IsGraph(g) == g.kind = "Graph"

\* bool(g): None and 0 are false, a non-empty string is true,
\* a graph is true when it has a node (nx.Graph.__len__)
Truthy(g) ==
    CASE g.kind = "None" -> FALSE
      [] g.kind = "int 0" -> FALSE
      [] g.kind = "str" -> TRUE
      [] OTHER -> g.nodes # {}

NoData(nodes) == [v \in nodes |-> EmptyRecord]

\* nx.complete_graph(n)
complete_graph(n) ==
    GraphObject(0..(n - 1),
                {{i, j} : i \in 0..(n - 1), j \in 0..(n - 1)} \ {{i} : i \in 0..(n - 1)},
                NoData(0..(n - 1)))

\* nx.cycle_graph(n): the edges pairwise(nodes, cyclic=True)
cycle_graph(n) ==
    GraphObject(0..(n - 1),
                {{i, (i + 1) % n} : i \in 0..(n - 1)},
                NoData(0..(n - 1)))

\* a wheel with n spokes: the hub and n rim nodes
wheel_graph_spokes(n) ==
    GraphObject(0..n,
                {{0, i} : i \in 1..n}
                  \cup (IF n > 1 THEN {{i, IF i = n THEN 1 ELSE i + 1} : i \in 1..n} ELSE {}),
                NoData(0..n))

\* nx.wheel_graph(n): hub 0 joined to the rim 1..n-1, the rim a cycle when longer than 1
wheel_graph(n) ==
    GraphObject(0..(n - 1),
                {{0, i} : i \in 1..(n - 1)}
                  \cup (IF n - 1 > 1
                        THEN {{i, IF i = n - 1 THEN 1 ELSE i + 1} : i \in 1..(n - 1)}
                        ELSE {}),
                NoData(0..(n - 1)))

\* a three-way switch that takes an unknown graph_type for "complete"
BuildGraph_default_complete(graph_type, num_nodes) ==
    IF graph_type = "cycle" THEN cycle_graph(num_nodes)
    ELSE IF graph_type = "wheel" THEN wheel_graph(num_nodes)
    ELSE complete_graph(num_nodes)

\* the graph initialize_graph builds before it fills the nodes
BuildGraph(graph_type, num_nodes) ==
    IF graph_type = "complete" THEN complete_graph(num_nodes)
    ELSE IF graph_type = "cycle" THEN cycle_graph(num_nodes)
    ELSE wheel_graph(num_nodes)

\* node_data.update(initial_data) on every node
FillNodes(g, initial) ==
    [g EXCEPT !.data = [v \in g.nodes |-> DictUpdate(g.data[v], initial[v])]]

\* the callables a caller installs as initial_data_function
InitialDataFunctions == {None, "genInitialData", "emptyData"}

\* what the initial data function returns, node by node: genInitialData a random
\* id, countingData the number of the invocation, emptyData an empty dict
InitialData(f, nodes) ==
    IF f = "genInitialData" THEN [nodes -> {IdRecord(v) : v \in 1..MaxVal}]
    ELSE IF f = "countingData" THEN {[v \in nodes |-> IdRecord(v + 1)]}
    ELSE {[v \in nodes |-> EmptyRecord]}

\* a graph a caller builds and hands to set_graph
CallerGraph ==
    GraphObject({0, 1}, {{0, 1}}, [v \in {0, 1} |-> IdRecord(v + 1)])

EmptyGraph == GraphObject({}, {}, <<>>)

\* the arguments a caller passes to set_graph
GraphArgs == {NoGraph, ZeroObject, StrObject, EmptyGraph, CallerGraph}

-----------------------------------------------------------------------------
(* The parameter store *)

\* a loop that pops every present key, the required ones too
RECURSIVE DeleteLoop_unprotected(_, _)
DeleteLoop_unprotected(d, keys) ==
    IF keys = <<>> THEN [parameters |-> d, status |-> "ok"]
    ELSE LET param == Head(keys) IN
         IF param \notin DOMAIN d
         THEN [parameters |-> d, status |-> "KeyError"]
         ELSE DeleteLoop_unprotected(DictPop(d, param), Tail(keys))

\* a loop whose protected set misses convergence_std_dev
RECURSIVE DeleteLoop_three(_, _)
DeleteLoop_three(d, keys) ==
    IF keys = <<>> THEN [parameters |-> d, status |-> "ok"]
    ELSE LET param == Head(keys) IN
         IF param \notin DOMAIN d
            \/ param \in {"num_nodes", "graph_type", "convergence_data_key"}
         THEN [parameters |-> d, status |-> "KeyError"]
         ELSE DeleteLoop_three(DictPop(d, param), Tail(keys))

\* a loop that validates every key before it pops any
DeleteLoop_atomic(d, keys) ==
    IF \E i \in 1..Len(keys) : keys[i] \notin DOMAIN d \/ keys[i] \in RequiredKeys
    THEN [parameters |-> d, status |-> "KeyError"]
    ELSE [parameters |-> [k \in DOMAIN d \ {keys[i] : i \in 1..Len(keys)} |-> d[k]],
          status |-> "ok"]

\* the loop of delete_parameters: the dict it leaves and how it ends
RECURSIVE DeleteLoop(_, _)
DeleteLoop(d, keys) ==
    IF keys = <<>> THEN [parameters |-> d, status |-> "ok"]
    ELSE LET param == Head(keys) IN
         IF param \notin DOMAIN d \/ param \in RequiredKeys
         THEN [parameters |-> d, status |-> "KeyError"]
         ELSE DeleteLoop(DictPop(d, param), Tail(keys))

Init ==
    /\ parameters = DefaultParameters
    /\ graph = NoGraph
    /\ initial_data_function = None
    /\ timestep_function = None
    /\ MAX_TIMESTEPS = DefaultMaxTimesteps
    /\ run = NoRun
    /\ last = Call("__init__", <<>>, "ok", 0)
    /\ initialized = FALSE

update_parameters(patch) ==
    /\ run.pc = "idle"
    /\ parameters' = DictUpdate(parameters, patch)
    /\ last' = Call("update_parameters", patch, "ok", 0)
    /\ UNCHANGED <<graph, initial_data_function, timestep_function, MAX_TIMESTEPS, run, initialized>>

\* a reset that restores the four defaults and keeps the custom keys
delete_parameters_keep(keys) ==
    /\ run.pc = "idle"
    /\ IF keys = <<>>
       THEN /\ parameters' = DictUpdate(parameters, DefaultParameters)
            /\ last' = Call("delete_parameters", keys, "ok", 1)
       ELSE LET r == DeleteLoop(parameters, keys) IN
            /\ parameters' = r.parameters
            /\ last' = Call("delete_parameters", keys, r.status,
                            IF r.status = "ok" THEN 1 ELSE 0)
    /\ UNCHANGED <<graph, initial_data_function, timestep_function, MAX_TIMESTEPS, run, initialized>>

delete_parameters(keys) ==
    /\ run.pc = "idle"
    /\ IF keys = <<>>
       THEN /\ parameters' = DefaultParameters
            /\ last' = Call("delete_parameters", keys, "ok", 1)
       ELSE LET r == DeleteLoop(parameters, keys) IN
            /\ parameters' = r.parameters
            /\ last' = Call("delete_parameters", keys, r.status,
                            IF r.status = "ok" THEN 1 ELSE 0)
    /\ UNCHANGED <<graph, initial_data_function, timestep_function, MAX_TIMESTEPS, run, initialized>>

setitem(parameter, value) ==
    /\ run.pc = "idle"
    /\ parameters' = DictSet(parameters, parameter, value)
    /\ last' = Call("__setitem__", <<parameter>>, "ok", 0)
    /\ UNCHANGED <<graph, initial_data_function, timestep_function, MAX_TIMESTEPS, run, initialized>>

-----------------------------------------------------------------------------
(* The graph lifecycle *)

set_graph(g) ==
    /\ run.pc = "idle"
    /\ IF Truthy(g) /\ ~IsGraph(g)
       THEN /\ graph' = graph
            /\ last' = Call("set_graph", g, "Exception", 0)
       ELSE /\ graph' = g
            /\ last' = Call("set_graph", g, "ok", 0)
    /\ UNCHANGED <<parameters, initial_data_function, timestep_function, MAX_TIMESTEPS, run, initialized>>

get_graph ==
    /\ run.pc = "idle"
    /\ last' = Call("get_graph", <<>>, "ok", graph)
    /\ UNCHANGED <<parameters, graph, initial_data_function, timestep_function,
                   MAX_TIMESTEPS, run, initialized>>

set_initial_data_function(f) ==
    /\ run.pc = "idle"
    /\ initial_data_function' = f
    /\ last' = Call("set_initial_data_function", <<>>, "ok", 0)
    /\ UNCHANGED <<parameters, graph, timestep_function, MAX_TIMESTEPS, run, initialized>>

initialize_graph ==
    /\ run.pc = "idle"
    /\ LET num_nodes == parameters["num_nodes"]
           graph_type == parameters["graph_type"]
           built == BuildGraph(graph_type, num_nodes)
       IN  IF initial_data_function = None
           THEN /\ graph' = built
                /\ last' = Call("initialize_graph", <<>>, "Exception", 0)
                /\ UNCHANGED initialized
           ELSE /\ \E initial \in InitialData(initial_data_function, built.nodes) :
                       /\ graph' = FillNodes(built, initial)
                       /\ last' = Call("initialize_graph", initial, "ok",
                                       Cardinality(DOMAIN initial))
                /\ initialized' = TRUE
    /\ UNCHANGED <<parameters, initial_data_function, timestep_function, MAX_TIMESTEPS, run>>

NextGraph ==
    \/ \E g \in GraphArgs : set_graph(g)
    \/ get_graph
    \/ \E f \in InitialDataFunctions : set_initial_data_function(f)
    \/ initialize_graph
    \/ \E k \in {"num_nodes", "graph_type"} : \E v \in ValuesOf(k) : setitem(k, v)
    \/ \E k \in {"num_nodes", "graph_type"} : \E v \in ValuesOf(k) :
           update_parameters(DictSet(EmptyDict, k, v))
    \/ \E keys \in {<<>>, <<"num_nodes">>} : delete_parameters(keys)

SpecGraph == Init /\ [][NextGraph]_vars

-----------------------------------------------------------------------------
(* Properties of the graph lifecycle, under SpecGraph *)

NodeCount(g) == Cardinality(g.nodes)

\* C1: initialize_graph called while no initial data function is set fails and
\* leaves the owned graph exactly as it was before the call.
C1_InitializeWithoutFunctionKeepsGraph ==
    [][(last'.op = "initialize_graph" /\ initial_data_function = None)
         => (last'.status = "Exception" /\ graph' = graph)]_vars

\* C4: set_graph fails and leaves the graph unchanged for every argument that is
\* neither None nor a graph, stores a graph or None, and so get_graph only ever
\* returns None or a graph.
C4_SetGraphRejectsEveryNonGraph ==
    [][/\ last'.op = "set_graph"
            => IF last'.arg.kind \in {"None", "Graph"}
               THEN last'.status = "ok" /\ graph' = last'.arg
               ELSE last'.status = "Exception" /\ graph' = graph
       /\ last'.op = "get_graph" => last'.ret.kind \in {"None", "Graph"}]_vars

\* C5, as stated: once initialize_graph has completed, the owned graph has
\* exactly num_nodes nodes in every later state.
C5_NodeCountAlwaysNumNodes ==
    initialized => (IsGraph(graph) /\ NodeCount(graph) = parameters["num_nodes"])

\* C5, amended: when initialize_graph completes, the graph it leaves has exactly
\* num_nodes nodes, num_nodes being the parameter's value during that call.
C5_NodeCountOnCompletion ==
    (last.op = "initialize_graph" /\ last.status = "ok")
        => (IsGraph(graph) /\ NodeCount(graph) = parameters["num_nodes"])

C5_Witness ==
    /\ last.op = "initialize_graph" /\ last.status = "ok"
    /\ parameters["num_nodes"] = 2 /\ parameters["graph_type"] = "star"
    /\ NodeCount(graph) = 2

-----------------------------------------------------------------------------
(* Execution: timestep, is_converged, run_to_convergence *)

\* the callables a caller installs as timestep_function
TimestepFunctions == {None, "stepper"}

\* the values a caller (or a stepper) passes to change_max_timesteps
BoundArgs == -1..MaxBound

\* what one invocation of a stepper does through the model it is handed
StepperEffects ==
    {[kind |-> k, val |-> 0] :
        k \in {"noop", "incrementAll", "incrementFirst", "copyFirst", "clear", "raise"}}
    \cup {[kind |-> "change_max_timesteps", val |-> b] : b \in BoundArgs}
    \cup {[kind |-> "convergence_std_dev", val |-> v] : v \in ValuesOf("convergence_std_dev")}
    \cup {[kind |-> "convergence_data_key", val |-> None]}

HasField(g, v, key) == key \in DOMAIN g.data[v]

\* nodeData["id"] = nodeData["id"] + 1
genTimestepData(nodeData) == [nodeData EXCEPT !["id"] = nodeData["id"] + 1]

\* the model after one invocation of the stepper, and how the invocation ended
ApplyEffect(e) ==
    LET same == [status |-> "ok", graph |-> graph, parameters |-> parameters,
                 MAX_TIMESTEPS |-> MAX_TIMESTEPS]
    IN  CASE e.kind = "noop" -> same
          [] e.kind = "raise" -> [same EXCEPT !.status = "StepperError"]
          [] ~IsGraph(graph) /\ e.kind \in {"incrementAll", "incrementFirst", "copyFirst", "clear"}
                -> [same EXCEPT !.status = "AttributeError"]
          [] e.kind = "incrementAll" ->
                IF \E v \in graph.nodes : ~HasField(graph, v, "id")
                THEN LET bad == CHOOSE v \in graph.nodes :
                                   /\ ~HasField(graph, v, "id")
                                   /\ \A w \in graph.nodes : w < v => HasField(graph, w, "id")
                     IN [same EXCEPT !.status = "KeyError",
                                     !.graph.data = [v \in graph.nodes |->
                                         IF v < bad THEN genTimestepData(graph.data[v])
                                         ELSE graph.data[v]]]
                ELSE [same EXCEPT !.graph.data =
                                     [v \in graph.nodes |-> genTimestepData(graph.data[v])]]
          [] e.kind = "incrementFirst" ->
                IF 0 \notin graph.nodes \/ ~HasField(graph, 0, "id")
                THEN [same EXCEPT !.status = "KeyError"]
                ELSE [same EXCEPT !.graph.data[0] = genTimestepData(graph.data[0])]
          [] e.kind = "copyFirst" ->
                IF 0 \notin graph.nodes \/ ~HasField(graph, 0, "id")
                THEN [same EXCEPT !.status = "KeyError"]
                ELSE [same EXCEPT !.graph.data =
                                     [v \in graph.nodes |->
                                         DictSet(graph.data[v], "id", graph.data[0]["id"])]]
          [] e.kind = "clear" ->
                [same EXCEPT !.graph.data = [v \in graph.nodes |-> EmptyRecord]]
          [] e.kind = "change_max_timesteps" -> [same EXCEPT !.MAX_TIMESTEPS = e.val]
          [] OTHER -> [same EXCEPT !.parameters = DictSet(parameters, e.kind, e.val)]

\* the effects the model follows: no id is pushed past MaxVal
Followed(e) ==
    /\ e.kind = "incrementAll" =>
          ~(IsGraph(graph) /\ \E v \in graph.nodes :
                HasField(graph, v, "id") /\ graph.data[v]["id"] >= MaxVal)
    /\ e.kind = "incrementFirst" =>
          ~(IsGraph(graph) /\ 0 \in graph.nodes /\ HasField(graph, 0, "id")
              /\ graph.data[0]["id"] >= MaxVal)

\* the sum of f over the set S
RECURSIVE SumOver(_, _)
SumOver(f, S) ==
    IF S = {} THEN 0
    ELSE LET v == CHOOSE x \in S : TRUE IN f[v] + SumOver(f, S \ {v})

\* a comparison that wants the deviation strictly below the threshold
StdAtMost_strict(g, data_key, std_dev) ==
    LET N == Cardinality(g.nodes)
        sum == SumOver([v \in g.nodes |-> g.data[v][data_key]], g.nodes)
        squares == SumOver([v \in g.nodes |-> g.data[v][data_key] * g.data[v][data_key]],
                           g.nodes)
    IN  /\ N > 0
        /\ std_dev >= 0
        /\ N * squares - sum * sum < std_dev * std_dev * N * N

\* the sample standard deviation, which divides by N - 1 (nan for one value)
StdAtMost_sample(g, data_key, std_dev) ==
    LET N == Cardinality(g.nodes)
        sum == SumOver([v \in g.nodes |-> g.data[v][data_key]], g.nodes)
        squares == SumOver([v \in g.nodes |-> g.data[v][data_key] * g.data[v][data_key]],
                           g.nodes)
    IN  /\ N > 1
        /\ std_dev >= 0
        /\ N * squares - sum * sum <= std_dev * std_dev * N * (N - 1)

\* nodes.std() <= std_dev, the population standard deviation of the values at
\* data_key: sqrt(sum(x^2)/N - (sum(x)/N)^2); the std of an empty array is nan
StdAtMost(g, data_key, std_dev) ==
    LET N == Cardinality(g.nodes)
        sum == SumOver([v \in g.nodes |-> g.data[v][data_key]], g.nodes)
        squares == SumOver([v \in g.nodes |-> g.data[v][data_key] * g.data[v][data_key]],
                           g.nodes)
    IN  /\ N > 0
        /\ std_dev >= 0
        /\ N * squares - sum * sum <= std_dev * std_dev * N * N

\* is_converged(data_key, std_dev): how the call ends and what it returns
is_converged(g, data_key, std_dev) ==
    IF ~IsGraph(g) THEN [status |-> "AttributeError", value |-> FALSE]
    ELSE IF \E v \in g.nodes : ~HasField(g, v, data_key)
    THEN [status |-> "KeyError", value |-> FALSE]
    ELSE [status |-> "ok", value |-> StdAtMost(g, data_key, std_dev)]

\* the node data satisfies the convergence check
Satisfies(g, data_key, std_dev) ==
    LET c == is_converged(g, data_key, std_dev) IN c.status = "ok" /\ c.value

Min(a, b) == IF a <= b THEN a ELSE b

Max(a, b) == IF a >= b THEN a ELSE b

\* a loop test that never looks at the bound
WithinBound_ignored(time, bound) == TRUE

\* a loop test that stops only when the count equals the bound
WithinBound_unequal(time, bound) == time # bound

\* a loop test against the bound read once, when the call was made
WithinBound_once(time, bound) == time < run.bound0

\* a loop test that lets the count reach the bound plus one
WithinBound_inclusive(time, bound) == time <= bound

\* time < self.__MAX_TIMESTEPS
WithinBound(time, bound) == time < bound

\* a frame whose step count starts at 1
StartFrame_one(data_key, std_dev) ==
    [pc |-> "loop", time |-> 1, data_key |-> data_key, std_dev |-> std_dev, calls |-> 0,
     first |-> IF Satisfies(graph, data_key, std_dev) THEN 0 ELSE -1,
     lo |-> MAX_TIMESTEPS, hi |-> MAX_TIMESTEPS, bound0 |-> MAX_TIMESTEPS]

\* the locals of run_to_convergence when it reaches its loop: time = 0, the key and
\* the threshold read from the parameters; with them what the run will be judged by:
\* the stepper invocations made, the first step count at which the node data
\* satisfied the check, the least and the largest bound the loop tests saw, the
\* bound in force when the call was made
StartFrame(data_key, std_dev) ==
    [pc |-> "loop", time |-> 0, data_key |-> data_key, std_dev |-> std_dev, calls |-> 0,
     first |-> IF Satisfies(graph, data_key, std_dev) THEN 0 ELSE -1,
     lo |-> MAX_TIMESTEPS, hi |-> MAX_TIMESTEPS, bound0 |-> MAX_TIMESTEPS]

set_timestep_function(f) ==
    /\ run.pc = "idle"
    /\ timestep_function' = f
    /\ last' = Call("set_timestep_function", <<>>, "ok", 0)
    /\ UNCHANGED <<parameters, graph, initial_data_function, MAX_TIMESTEPS, run, initialized>>

change_max_timesteps(timesteps) ==
    /\ run.pc = "idle"
    /\ MAX_TIMESTEPS' = timesteps
    /\ last' = Call("change_max_timesteps", <<>>, "ok", 0)
    /\ UNCHANGED <<parameters, graph, initial_data_function, timestep_function, run,
                   initialized>>

\* a timestep that does nothing when no stepper is set
timestep_silent ==
    /\ run.pc = "idle"
    /\ IF timestep_function = None
       THEN /\ last' = Call("timestep", <<>>, "ok", 0)
            /\ UNCHANGED <<parameters, graph, MAX_TIMESTEPS>>
       ELSE \E e \in StepperEffects :
              /\ Followed(e)
              /\ LET r == ApplyEffect(e) IN
                   /\ graph' = r.graph
                   /\ parameters' = r.parameters
                   /\ MAX_TIMESTEPS' = r.MAX_TIMESTEPS
                   /\ last' = Call("timestep", e, r.status, 1)
    /\ UNCHANGED <<initial_data_function, timestep_function, run, initialized>>

\* timestep(): the call records what the one stepper invocation did and the
\* number of invocations made
timestep ==
    /\ run.pc = "idle"
    /\ IF timestep_function = None
       THEN /\ last' = Call("timestep", <<>>, "Exception", 0)
            /\ UNCHANGED <<parameters, graph, MAX_TIMESTEPS>>
       ELSE \E e \in StepperEffects :
              /\ Followed(e)
              /\ LET r == ApplyEffect(e) IN
                   /\ graph' = r.graph
                   /\ parameters' = r.parameters
                   /\ MAX_TIMESTEPS' = r.MAX_TIMESTEPS
                   /\ last' = Call("timestep", e, r.status, 1)
    /\ UNCHANGED <<initial_data_function, timestep_function, run, initialized>>

\* a call that reads the graph's nodes before it tests the data key
run_to_convergence_nodes_first ==
    /\ run.pc = "idle"
    /\ LET data_key == parameters["convergence_data_key"]
           std_dev == parameters["convergence_std_dev"]
       IN  IF ~IsGraph(graph)
           THEN /\ last' = Call("run_to_convergence", NoRun, "AttributeError", 0)
                /\ UNCHANGED run
           ELSE IF data_key = None
           THEN /\ last' = Call("run_to_convergence", NoRun, "Exception", 0)
                /\ UNCHANGED run
           ELSE /\ run' = StartFrame(data_key, std_dev)
                /\ last' = Call("run_to_convergence", NoRun, "running", 0)
    /\ UNCHANGED <<parameters, graph, initial_data_function, timestep_function,
                   MAX_TIMESTEPS, initialized>>

\* run_to_convergence up to its while loop: lines 175-180
run_to_convergence ==
    /\ run.pc = "idle"
    /\ LET data_key == parameters["convergence_data_key"]
           std_dev == parameters["convergence_std_dev"]
       IN  IF data_key = None
           THEN /\ last' = Call("run_to_convergence", NoRun, "Exception", 0)
                /\ UNCHANGED run
           ELSE IF ~IsGraph(graph)
           THEN /\ last' = Call("run_to_convergence", NoRun, "AttributeError", 0)
                /\ UNCHANGED run
           ELSE /\ run' = StartFrame(data_key, std_dev)
                /\ last' = Call("run_to_convergence", NoRun, "running", 0)
    /\ UNCHANGED <<parameters, graph, initial_data_function, timestep_function,
                   MAX_TIMESTEPS, initialized>>

\* an end that swallows the error and returns the count reached
Leave_suppressed(frame, status) ==
    /\ run' = NoRun
    /\ last' = Call("run_to_convergence", frame, "ok", frame.time)

\* an end that returns one more than the count reached
Leave_next(frame, status) ==
    /\ run' = NoRun
    /\ last' = Call("run_to_convergence", frame, status,
                    IF status = "ok" THEN frame.time + 1 ELSE 0)

\* the call ends: the frame goes, the caller sees status and value
Leave(frame, status) ==
    /\ run' = NoRun
    /\ last' = Call("run_to_convergence", frame, status, IF status = "ok" THEN frame.time ELSE 0)

\* one test of the while condition and, when it holds, one pass of the body:
\* lines 181-187
loop ==
    /\ run.pc = "loop"
    /\ LET frame == [run EXCEPT !.lo = Min(run.lo, MAX_TIMESTEPS),
                                !.hi = Max(run.hi, MAX_TIMESTEPS)]
           c == is_converged(graph, run.data_key, run.std_dev)
       IN  IF ~WithinBound(run.time, MAX_TIMESTEPS)
           THEN /\ Leave(frame, "ok")
                /\ UNCHANGED <<parameters, graph, MAX_TIMESTEPS>>
           ELSE IF c.status # "ok"
           THEN /\ Leave(frame, c.status)
                /\ UNCHANGED <<parameters, graph, MAX_TIMESTEPS>>
           ELSE IF c.value
           THEN /\ Leave(frame, "ok")
                /\ UNCHANGED <<parameters, graph, MAX_TIMESTEPS>>
           ELSE IF timestep_function = None
           THEN /\ Leave(frame, "Exception")
                /\ UNCHANGED <<parameters, graph, MAX_TIMESTEPS>>
           ELSE /\ run.time < MaxTime
                /\ \E e \in StepperEffects :
                     /\ Followed(e)
                     /\ LET r == ApplyEffect(e)
                            called == [frame EXCEPT !.calls = @ + 1]
                        IN  /\ graph' = r.graph
                            /\ parameters' = r.parameters
                            /\ MAX_TIMESTEPS' = r.MAX_TIMESTEPS
                            /\ IF r.status # "ok"
                               THEN Leave(called, r.status)
                               ELSE /\ run' = [called EXCEPT
                                         !.time = @ + 1,
                                         !.first = IF @ = -1 /\ Satisfies(r.graph, run.data_key,
                                                                         run.std_dev)
                                                   THEN run.time + 1 ELSE @]
                                    /\ UNCHANGED last
    /\ UNCHANGED <<initial_data_function, timestep_function, initialized>>

NextRun ==
    \/ initialize_graph
    \/ \E f \in TimestepFunctions : set_timestep_function(f)
    \/ \E b \in BoundArgs : change_max_timesteps(b)
    \/ \E k \in {"convergence_data_key", "convergence_std_dev"} :
          \E v \in ValuesOf(k) : setitem(k, v)
    \/ timestep
    \/ run_to_convergence
    \/ loop

\* a model on which set_initial_data_function(genInitialData) has been called
InitRun ==
    /\ parameters = DefaultParameters
    /\ graph = NoGraph
    /\ initial_data_function = "genInitialData"
    /\ timestep_function = None
    /\ MAX_TIMESTEPS = DefaultMaxTimesteps
    /\ run = NoRun
    /\ last = Call("set_initial_data_function", <<>>, "ok", 0)
    /\ initialized = FALSE

SpecRun == InitRun /\ [][NextRun]_vars

-----------------------------------------------------------------------------
(* Properties of run_to_convergence, under SpecRun *)

\* a run_to_convergence call has just returned a value
Returned == last.op = "run_to_convergence" /\ last.status = "ok"

\* C2, as stated: the value run_to_convergence returns is at most the
\* max-timestep bound, for every integer bound and every stepper.
C2_ReturnAtMostBound ==
    Returned => last.ret <= MAX_TIMESTEPS

\* C2, amended: the value returned is at least 0 and at most the largest bound a
\* loop test of that run saw, or 0 when that bound is negative.
C2_ReturnAtMostBoundOrZero ==
    Returned => (0 <= last.ret /\ last.ret <= Max(0, last.arg.hi))

\* a run that used up a bound of 2 without the check ever passing
C2_Witness ==
    /\ Returned /\ last.ret = 2 /\ last.arg.calls = 2 /\ last.arg.first = -1
    /\ last.arg.lo = 2 /\ last.arg.hi = 2 /\ MAX_TIMESTEPS = 2

NextParameters ==
    \/ \E patch \in PatchArgs : update_parameters(patch)
    \/ \E keys \in KeyLists : delete_parameters(keys)
    \/ \E k \in Keys : \E v \in ValuesOf(k) : setitem(k, v)

\* a model on which set_graph, the two function setters and change_max_timesteps
\* have been called
Configured ==
    /\ parameters = DefaultParameters
    /\ graph = CallerGraph
    /\ initial_data_function = "genInitialData"
    /\ timestep_function = "stepper"
    /\ MAX_TIMESTEPS = 2
    /\ run = NoRun
    /\ last = Call("change_max_timesteps", <<>>, "ok", 0)
    /\ initialized = FALSE

InitParameters == Init \/ Configured

SpecParameters == InitParameters /\ [][NextParameters]_vars

-----------------------------------------------------------------------------
(* Properties of the parameter store, under SpecParameters *)

Others == <<graph, initial_data_function, timestep_function, MAX_TIMESTEPS>>

\* C6: whatever update_parameters, __setitem__ and delete_parameters calls are
\* made, the parameter set contains the four required keys.
C6_RequiredKeysPresent ==
    {"num_nodes", "graph_type", "convergence_data_key", "convergence_std_dev"}
        \subseteq DOMAIN parameters

C6_Witness ==
    /\ last.op = "delete_parameters" /\ last.status = "KeyError"
    /\ last.arg = <<"a", "convergence_std_dev">>
    /\ parameters["convergence_std_dev"] = 1
    /\ parameters["num_nodes"] = 2

\* C7: delete_parameters([k1, k2]) with k1 present and deletable and k2 absent or
\* protected fails with KeyError, has removed k1 and changed nothing else.
C7_PartialDelete ==
    [][(/\ last'.op = "delete_parameters" /\ Len(last'.arg) = 2
        /\ last'.arg[1] \in DOMAIN parameters
        /\ last'.arg[1] \notin {"num_nodes", "graph_type", "convergence_data_key",
                                "convergence_std_dev"}
        /\ \/ last'.arg[2] \notin DOMAIN parameters
           \/ last'.arg[2] \in {"num_nodes", "graph_type", "convergence_data_key",
                                 "convergence_std_dev"})
         => /\ last'.status = "KeyError"
            /\ DOMAIN parameters' = DOMAIN parameters \ {last'.arg[1]}
            /\ \A k \in DOMAIN parameters' : parameters'[k] = parameters[k]
            /\ UNCHANGED Others]_vars

C7_Witness ==
    /\ last.op = "delete_parameters" /\ last.status = "KeyError"
    /\ last.arg = <<"a", "graph_type">>
    /\ "a" \notin DOMAIN parameters
    /\ "b" \in DOMAIN parameters
    /\ parameters["graph_type"] = "cycle"

\* C8: delete_parameters([k]) for a required key k fails with KeyError and leaves
\* the whole parameter set, k and its value included, unchanged.
C8_RequiredKeyNotDeleted ==
    [][(/\ last'.op = "delete_parameters" /\ Len(last'.arg) = 1
        /\ last'.arg[1] \in {"num_nodes", "graph_type", "convergence_data_key",
                              "convergence_std_dev"})
         => /\ last'.status = "KeyError"
            /\ last'.arg[1] \in DOMAIN parameters'
            /\ parameters' = parameters
            /\ UNCHANGED Others]_vars

C8_Witness ==
    /\ last.op = "delete_parameters" /\ last.status = "KeyError"
    /\ last.arg = <<"convergence_std_dev">>
    /\ parameters["convergence_std_dev"] = 0
    /\ "a" \in DOMAIN parameters

\* C9: delete_parameters with no argument or an empty list returns True and leaves
\* exactly num_nodes=3, graph_type="complete", convergence_data_key=None,
\* convergence_std_dev=100; graph, bound and behaviour functions are unchanged.
C9_ResetToDefaults ==
    [][(last'.op = "delete_parameters" /\ last'.arg = <<>>)
         => /\ last'.status = "ok" /\ last'.ret = 1
            /\ DOMAIN parameters' = {"num_nodes", "graph_type", "convergence_data_key",
                                     "convergence_std_dev"}
            /\ parameters'["num_nodes"] = 3
            /\ parameters'["graph_type"] = "complete"
            /\ parameters'["convergence_data_key"] = None
            /\ parameters'["convergence_std_dev"] = 100
            /\ UNCHANGED Others]_vars

\* a reset reached from a parameter set that held custom keys and other values
C9_Witness ==
    /\ last.op = "delete_parameters" /\ last.arg = <<>> /\ last.status = "ok"
    /\ DOMAIN parameters = RequiredKeys
    /\ graph = CallerGraph /\ MAX_TIMESTEPS = 2

\* C10: after update_parameters(P) every key of P holds the value P supplies, every
\* other key keeps its value, the call does not fail and nothing else changes.
C10_UpdateMerges ==
    [][last'.op = "update_parameters"
         => /\ last'.status = "ok"
            /\ DOMAIN parameters' = DOMAIN parameters \cup DOMAIN last'.arg
            /\ \A k \in DOMAIN last'.arg : parameters'[k] = last'.arg[k]
            /\ \A k \in DOMAIN parameters \ DOMAIN last'.arg : parameters'[k] = parameters[k]
            /\ UNCHANGED Others]_vars

C10_Witness ==
    /\ last.op = "update_parameters"
    /\ DOMAIN last.arg = {"a", "num_nodes"}
    /\ parameters["num_nodes"] = 1 /\ parameters["num_nodes"] = last.arg["num_nodes"]
    /\ "b" \in DOMAIN parameters
    /\ parameters["graph_type"] = "cycle"

-----------------------------------------------------------------------------
(* Further properties of run_to_convergence, under SpecRun *)

\* a run_to_convergence call has just ended, with a value or an error
Ended == last.op = "run_to_convergence" /\ last.status # "running"

\* C11: run_to_convergence called while convergence_data_key is None fails with
\* an Exception before any step: no stepper invocation, and graph, node records
\* and parameters unchanged, whether or not a graph or a stepper is set.
C11_NoDataKeyFailsFirst ==
    [][(/\ run.pc = "idle" /\ last'.op = "run_to_convergence"
        /\ parameters["convergence_data_key"] = None)
         => /\ last'.status = "Exception"
            /\ last'.arg.calls = 0
            /\ run' = run
            /\ graph' = graph /\ parameters' = parameters
            /\ MAX_TIMESTEPS' = MAX_TIMESTEPS]_vars

\* the call failed on a model that has no graph but has a stepper
C11_Witness ==
    /\ last.op = "run_to_convergence" /\ last.status = "Exception"
    /\ parameters["convergence_data_key"] = None
    /\ graph = NoGraph
    /\ timestep_function = "stepper"

\* C13: with a bound of zero or less in force when run_to_convergence is called
\* (data key set, graph initialized) the call ends at its first loop test: it
\* returns 0 and invokes the stepper zero times, whether or not the node data
\* satisfies the check.
C13_NonPositiveBoundReturnsZero ==
    [][(run.pc = "loop" /\ run.calls = 0 /\ MAX_TIMESTEPS <= 0)
         => /\ run'.pc = "idle"
            /\ last'.op = "run_to_convergence" /\ last'.status = "ok"
            /\ last'.ret = 0 /\ last'.arg.calls = 0
            /\ graph' = graph /\ parameters' = parameters]_vars

\* a run under a bound of -1 returned 0 on node data that does not satisfy the check
C13_Witness ==
    /\ Returned /\ last.ret = 0 /\ last.arg.calls = 0
    /\ last.arg.bound0 = -1 /\ MAX_TIMESTEPS = -1
    /\ last.arg.std_dev = 0
    /\ \E v \in graph.nodes : graph.data[v]["id"] # graph.data[0]["id"]

\* every node holds the same id
AllEqual(g) ==
    /\ IsGraph(g) /\ g.nodes # {}
    /\ \A v \in g.nodes : HasField(g, v, "id")
    /\ \A v, w \in g.nodes : g.data[v]["id"] = g.data[w]["id"]

\* C14: when the node data satisfies the check at the moment run_to_convergence
\* is called (as when every node holds the same id and the threshold is 0) and
\* the bound is positive, the call returns 0, never invokes the stepper and
\* leaves the node records unchanged.
C14_AlreadyConvergedReturnsZero ==
    [][(/\ run.pc = "loop" /\ run.calls = 0 /\ run.time = 0 /\ MAX_TIMESTEPS > 0
        /\ \/ Satisfies(graph, run.data_key, run.std_dev)
           \/ (AllEqual(graph) /\ run.data_key = "id" /\ run.std_dev >= 0))
         => /\ run'.pc = "idle"
            /\ last'.op = "run_to_convergence" /\ last'.status = "ok"
            /\ last'.ret = 0 /\ last'.arg.calls = 0
            /\ graph' = graph]_vars

\* three nodes with the same id, threshold 0, a stepper installed, a bound of 2
C14_Witness ==
    /\ Returned /\ last.ret = 0 /\ last.arg.calls = 0
    /\ last.arg.bound0 = 2 /\ last.arg.std_dev = 0
    /\ timestep_function = "stepper"
    /\ NodeCount(graph) = 3 /\ AllEqual(graph)

\* C17: timestep() fails with an Exception and changes no state when no stepper
\* is set; otherwise it invokes the stepper exactly once and the state changes
\* are those of that one invocation.
C17_TimestepInvokesOnce ==
    [][(run.pc = "idle" /\ last'.op = "timestep")
         => /\ UNCHANGED <<initial_data_function, timestep_function, run, initialized>>
            /\ IF timestep_function = None
               THEN /\ last'.status = "Exception" /\ last'.ret = 0
                    /\ UNCHANGED <<parameters, graph, MAX_TIMESTEPS>>
               ELSE /\ last'.ret = 1
                    /\ last'.arg \in StepperEffects
                    /\ graph' = ApplyEffect(last'.arg).graph
                    /\ parameters' = ApplyEffect(last'.arg).parameters
                    /\ MAX_TIMESTEPS' = ApplyEffect(last'.arg).MAX_TIMESTEPS
                    /\ last'.status = ApplyEffect(last'.arg).status]_vars

\* timestep() failed on an initialized graph with no stepper set
C17_Witness ==
    /\ last.op = "timestep" /\ last.status = "Exception" /\ last.ret = 0
    /\ timestep_function = None
    /\ initialized /\ IsGraph(graph)

\* C18: an error raised inside run_to_convergence (the convergence check failing
\* on a node without the data key, the stepper missing, the stepper failing)
\* reaches the caller and ends the run there: no further stepper invocation, and
\* the node records stay as the completed steps and the failing one left them.
C18_ErrorAbortsRun ==
    [][run.pc = "loop" =>
         LET c == is_converged(graph, run.data_key, run.std_dev)
             failed == last'.op = "run_to_convergence" /\ last'.status \notin {"ok", "running"}
         IN  /\ (run.time < MAX_TIMESTEPS /\ c.status # "ok")
                   => /\ failed /\ last'.status = c.status
                      /\ last'.arg.calls = run.calls
                      /\ graph' = graph /\ parameters' = parameters
             /\ (run.time < MAX_TIMESTEPS /\ c.status = "ok" /\ ~c.value
                   /\ timestep_function = None)
                   => /\ failed /\ last'.status = "Exception"
                      /\ last'.arg.calls = run.calls
                      /\ graph' = graph /\ parameters' = parameters
             /\ failed
                   => /\ run' = NoRun
                      /\ last'.arg.time = run.time
                      /\ last'.arg.calls \in {run.calls, run.calls + 1}
                      /\ last'.arg.calls = run.calls + 1
                            => \E e \in StepperEffects :
                                   /\ ApplyEffect(e).status = last'.status
                                   /\ graph' = ApplyEffect(e).graph]_vars

\* the check failed with KeyError after two completed steps, the second of which
\* had removed the ids; the records are still without them
C18_Witness ==
    /\ last.op = "run_to_convergence" /\ last.status = "KeyError"
    /\ last.arg.calls = 2 /\ last.arg.time = 2
    /\ run = NoRun
    /\ \A v \in graph.nodes : ~HasField(graph, v, "id")

\* C19: in every run_to_convergence call that returns, the number of stepper
\* invocations equals the value returned, and the stepper is never invoked on
\* node data that satisfies the check of that run.
C19_InvocationsEqualReturn ==
    [][/\ (last'.op = "run_to_convergence" /\ last'.status = "ok")
            => last'.arg.calls = last'.ret
       /\ (run.pc = "loop" /\ (\/ run'.calls = run.calls + 1
                                \/ (run'.pc = "idle" /\ last'.arg.calls = run.calls + 1)))
            => /\ ~Satisfies(graph, run.data_key, run.std_dev)
               /\ run.first = -1]_vars

\* a run that returned 2 after two invocations, the data passing the check only
\* after the second
C19_Witness ==
    /\ Returned /\ last.ret = 2 /\ last.arg.calls = 2 /\ last.arg.first = 2
    /\ last.arg.bound0 = DefaultMaxTimesteps
    /\ Satisfies(graph, last.arg.data_key, last.arg.std_dev)

\* C20: run_to_convergence reads convergence_data_key and convergence_std_dev
\* once, when the call starts: a stepper overwriting either parameter does not
\* change the key or threshold of the remaining checks; the max-timestep bound
\* is read at every loop test, so a stepper calling change_max_timesteps changes
\* when the run stops.
C20_KeyAndThresholdOnceBoundEachTest ==
    [][run.pc = "loop" =>
         LET c == is_converged(graph, run.data_key, run.std_dev)
             returns == /\ run'.pc = "idle" /\ last'.op = "run_to_convergence"
                        /\ last'.status = "ok" /\ last'.ret = run.time
                        /\ last'.arg.calls = run.calls
         IN  /\ run'.pc = "loop"
                   => (run'.data_key = run.data_key /\ run'.std_dev = run.std_dev)
             /\ (run.time < MAX_TIMESTEPS /\ c.status = "ok" /\ c.value) => returns
             /\ (run.time < MAX_TIMESTEPS /\ c.status = "ok" /\ ~c.value) => ~returns
             /\ run.time >= MAX_TIMESTEPS => returns]_vars

\* a run called with threshold 0 and the default bound: the stepper stored the
\* threshold 100, under which the data passes, and the bound 2; the run went on
\* to the new bound and returned 2
C20_Witness ==
    /\ Returned /\ last.ret = 2 /\ last.arg.first = -1
    /\ last.arg.std_dev = 0 /\ parameters["convergence_std_dev"] = 100
    /\ ~Satisfies(graph, "id", 0) /\ Satisfies(graph, "id", 100)
    /\ last.arg.bound0 = DefaultMaxTimesteps /\ MAX_TIMESTEPS = 2

-----------------------------------------------------------------------------
(* Termination of run_to_convergence *)

\* the interpreter runs the loop on: every stepper invocation returns or raises
SpecRunFair == SpecRun /\ WF_vars(loop)

\* C12, as stated: a run_to_convergence call makes at most max-timestep-bound
\* stepper invocations, the bound being the one in force when the call is made,
\* whatever a stepper whose invocations return does.
C12_AtMostBoundInvocations ==
    Returned => last.arg.calls <= Max(0, last.arg.bound0)

\* C12, amended: the stepper invocations of a run never outnumber the largest
\* bound a loop test of that run saw (none when that bound is negative), and a
\* run whose loop tests only see bounds up to MaxBound ends.
C12_TerminatesWithinLargestBound ==
    /\ [](run.pc = "loop" => run.calls <= Max(0, run.hi))
    /\ [](Ended => last.arg.calls <= Max(0, last.arg.hi))
    /\ (run.pc = "loop" /\ run.hi <= MaxBound) ~> (run.pc = "idle")

\* a run ended by the bound alone: two invocations under a bound of 2, the check
\* never passing
C12_Witness ==
    /\ Returned /\ last.arg.calls = 2 /\ last.arg.bound0 = 2 /\ last.arg.hi = 2
    /\ last.arg.first = -1
    /\ ~Satisfies(graph, last.arg.data_key, last.arg.std_dev)

-----------------------------------------------------------------------------
(* The topologies initialize_graph builds *)

\* the node counts a caller stores to tell the topologies apart
TopologyNodes == 0..(MaxNodes + 2)

NextTopology ==
    \/ \E n \in TopologyNodes : setitem("num_nodes", n)
    \/ \E t \in ValuesOf("graph_type") : setitem("graph_type", t)
    \/ \E f \in {"countingData", "emptyData"} : set_initial_data_function(f)
    \/ set_graph(CallerGraph)
    \/ initialize_graph

SpecTopology == Init /\ [][NextTopology]_vars

\* the number of edges of g at node v
Degree(g, v) == Cardinality({e \in g.edges : v \in e})

\* C15: a successful initialize_graph with num_nodes = N leaves a fresh graph
\* chosen by graph_type: "complete" gives N nodes and N*(N-1)/2 edges, every pair
\* joined; "cycle" gives N nodes and N edges in a ring (N >= 3); any other value
\* gives a wheel on N nodes (a hub joined to every node of a rim that is a cycle);
\* the initializer is invoked once per node and each node's record holds exactly
\* the fields returned for it.
C15_FreshGraphByType ==
    (last.op = "initialize_graph" /\ last.status = "ok") =>
        LET N == parameters["num_nodes"]
            t == parameters["graph_type"]
            E == graph.edges
        IN  /\ IsGraph(graph) /\ graph.nodes = 0..(N - 1)
            /\ last.ret = N
            /\ \A v \in graph.nodes : graph.data[v] = last.arg[v]
            /\ t = "complete" =>
                  /\ 2 * Cardinality(E) = N * (N - 1)
                  /\ \A i, j \in graph.nodes : i # j => {i, j} \in E
            /\ (t = "cycle" /\ N >= 3) =>
                  /\ Cardinality(E) = N
                  /\ \A i \in graph.nodes : {i, (i + 1) % N} \in E /\ Degree(graph, i) = 2
            /\ t \notin {"complete", "cycle"} =>
                  /\ \A i \in graph.nodes \ {0} : {0, i} \in E
                  /\ N >= 4 =>
                        /\ Cardinality(E) = 2 * (N - 1)
                        /\ Degree(graph, 0) = N - 1
                        /\ \A i \in graph.nodes \ {0} : Degree(graph, i) = 3

\* a wheel on 5 nodes built for the unknown type "star", each node holding the
\* record of its own invocation
C15_Witness ==
    /\ last.op = "initialize_graph" /\ last.status = "ok"
    /\ parameters["num_nodes"] = 5 /\ parameters["graph_type"] = "star"
    /\ Cardinality(graph.edges) = 8
    /\ graph.data[4] = IdRecord(5) /\ graph.data[0] = IdRecord(1)

-----------------------------------------------------------------------------
(* The convergence check on its own *)

\* the samples a caller leaves in the "id" fields: every sample of 1..MaxNodes
\* values in 1..MaxVal, and the samples [5, 5, 5] and [1, 100]
SampleValues ==
    UNION {[1..n -> 1..MaxVal] : n \in 1..MaxNodes} \cup {<<5, 5, 5>>, <<1, 100>>}

\* a graph whose nodes hold the values of the sample, in order
SampleGraph(values) ==
    FillNodes(complete_graph(Len(values)),
              [v \in 0..(Len(values) - 1) |-> IdRecord(values[v + 1])])

\* the thresholds a caller passes to is_converged
Thresholds == ValuesOf("convergence_std_dev") \cup {10}

\* a model on which set_graph has been called with the graph of a sample
InitConverged ==
    /\ parameters = DefaultParameters
    /\ graph \in {SampleGraph(values) : values \in SampleValues}
    /\ initial_data_function = None
    /\ timestep_function = None
    /\ MAX_TIMESTEPS = DefaultMaxTimesteps
    /\ run = NoRun
    /\ last = Call("set_graph", graph, "ok", 0)
    /\ initialized = FALSE

\* a caller's is_converged(data_key, std_dev)
call_is_converged(data_key, std_dev) ==
    /\ run.pc = "idle"
    /\ LET c == is_converged(graph, data_key, std_dev)
       IN  last' = Call("is_converged", <<data_key, std_dev>>, c.status, c.value)
    /\ UNCHANGED <<parameters, graph, initial_data_function, timestep_function,
                   MAX_TIMESTEPS, run, initialized>>

NextConverged ==
    \E data_key \in {"id", "weight"} : \E std_dev \in Thresholds :
        call_is_converged(data_key, std_dev)

SpecConverged == InitConverged /\ [][NextConverged]_vars

\* the population standard deviation of the ids of g is at most s: with N values
\* x of sum S, the mean of the squared distances (x - S/N)^2 is at most s^2
PopulationDeviationAtMost(g, s) ==
    LET N == Cardinality(g.nodes)
        S == SumOver([v \in g.nodes |-> g.data[v]["id"]], g.nodes)
        distances == SumOver([v \in g.nodes |->
                                 (N * g.data[v]["id"] - S) * (N * g.data[v]["id"] - S)],
                             g.nodes)
    IN  s >= 0 /\ distances <= s * s * N * N * N

\* C16: is_converged(key, std) returns true exactly when the population standard
\* deviation (dividing by N) of the values at key is at most std; [5, 5, 5] with
\* std 0 gives true, [1, 100] with std 10 gives false; the call changes no state.
C16_PopulationDeviation ==
    [][(last'.op = "is_converged" /\ last'.arg[1] = "id")
         => /\ last'.status = "ok"
            /\ last'.ret = PopulationDeviationAtMost(graph, last'.arg[2])
            /\ (graph = SampleGraph(<<5, 5, 5>>) /\ last'.arg[2] = 0) => last'.ret = TRUE
            /\ (graph = SampleGraph(<<1, 100>>) /\ last'.arg[2] = 10) => last'.ret = FALSE
            /\ UNCHANGED <<parameters, graph, initial_data_function, timestep_function,
                           MAX_TIMESTEPS, run>>]_vars

\* the sample [1, 3]: population deviation exactly 1, sample deviation above 1
C16_Witness ==
    /\ last.op = "is_converged" /\ last.arg = <<"id", 1>>
    /\ graph = SampleGraph(<<1, 3>>)
    /\ last.status = "ok" /\ last.ret = TRUE

====
